---- MODULE Spec2Model ----
(***************************************************************************)
(* Model of scope/src/lib.rs (struct Scope): the glow buffer, the dot and  *)
(* line splats, fade, the trace driver provide_samples and the tone map    *)
(* with its grid overlay (as_rgba).                                        *)
(*                                                                         *)
(* Numbers.  f32 values are fixed-point integers in units of 1/Unit, and   *)
(* every product or quotient is truncated to that resolution.  Unit is the *)
(* reciprocal of sweep (0.001), so horiz advances by exactly one unit per  *)
(* sample.  usize values are integers modulo 2^64 kept as their signed     *)
(* residue: a negative integer v stands for 2^64 + v.                      *)
(***************************************************************************)
EXTENDS Integers, Sequences, FiniteSets, TLC

VARIABLES width, height, glow, tc, sweep, horiz, gain, xylast,
          overflow_checks, panicked, op, calls, written, image, overlay,
          trace, start, prev, nops

vars == <<width, height, glow, tc, sweep, horiz, gain, xylast,
          overflow_checks, panicked, op, calls, written, image, overlay,
          trace, start, prev, nops>>

(***************************************************************************)
(* Bounds of the model.                                                    *)
(***************************************************************************)
MaxOps == 3
MaxBatch == 2
MaxCalls == 2
MaxSplats == 1
MaxFrames == 2

(***************************************************************************)
(* Fixed-point arithmetic.                                                 *)
(***************************************************************************)
SweepRecip == 1000
Unit == SweepRecip

Abs(a) == IF a < 0 THEN -a ELSE a
Sgn(a) == IF a < 0 THEN -1 ELSE 1
Min(a, b) == IF a < b THEN a ELSE b
Max(a, b) == IF a > b THEN a ELSE b

\* a * b on f32, truncated toward zero
Mul(a, b) == Sgn(a) * Sgn(b) * ((Abs(a) * Abs(b)) \div Unit)
\* a / b on f32, truncated toward zero (b # 0)
Div(a, b) == Sgn(a) * Sgn(b) * ((Abs(a) * Unit) \div Abs(b))
\* f32::ceil, as a whole number
Ceil(a) == -((-a) \div Unit)
\* f32::max(0.0) as usize: negative values clamp to 0
AsUsize(n) == Max(n, 0)

RECURSIVE SqrtBisect(_, _, _)
SqrtBisect(n, lo, hi) ==
    IF lo >= hi THEN lo
    ELSE LET mid == (lo + hi + 1) \div 2
         IN IF mid * mid <= n THEN SqrtBisect(n, mid, hi)
                              ELSE SqrtBisect(n, lo, mid - 1)
\* floor of the square root of a natural number below 2^31
ISqrt(n) == SqrtBisect(n, 0, 46340)
\* f32::sqrt of a fixed-point value
Sqrt(a) == ISqrt(a * Unit)

(***************************************************************************)
(* The analytic approximators.                                             *)
(***************************************************************************)
\* beyond |x| = 4 the rational function is below one unit
Saturated(x) == Abs(x) >= 4 * Unit

gauss_approx(x) ==
    IF Saturated(x) THEN 0
    ELSE LET xx == Mul(x, x)
             y == x + Mul(215 + (952 * xx) \div (10 * Unit), Mul(x, xx))
         IN IF Abs(y) >= 32 * Unit THEN 0
            ELSE (Unit * Unit) \div (Unit + Mul(y, y))

erf_approx(x) ==
    IF Saturated(x) THEN Sgn(x) * (Unit - 1)
    ELSE LET xx == Mul(x, x)
             y == x + Mul(217 + Mul(72, xx), Mul(x, xx))
         IN IF Abs(y) >= 32 * Unit THEN Sgn(y) * (Unit - 1)
            ELSE Sgn(y) * ((Unit * Abs(y)) \div ISqrt(Unit * Unit + y * y))

(***************************************************************************)
(* The glow buffer: a function on 0 .. width*height-1, row-major.          *)
(***************************************************************************)
CLIP_FACTOR == (5 * Unit) \div 2

\* the pairs <<i, j>> visited by "for j in j0..j1 { for i in i0..i1 {..} }"
LoopCells(i0, i1, j0, j1) ==
    LET ni == Max(i1 - i0, 0)
        nj == Max(j1 - j0, 0)
    IN [n \in 1 .. (ni * nj) |-> <<i0 + ((n - 1) % ni), j0 + ((n - 1) \div ni)>>]

\* self.glow[j * self.width + i] += z, cell after cell; an index outside the
\* vector panics
RECURSIVE Splat(_, _, _, _, _, _)
Splat(g, wr, w, cells, z, n) ==
    IF n > Len(cells) THEN [glow |-> g, written |-> wr, panic |-> FALSE]
    ELSE LET k == cells[n][2] * w + cells[n][1]
         IN IF k \notin DOMAIN g
            THEN [glow |-> g, written |-> wr, panic |-> TRUE]
            ELSE Splat([g EXCEPT ![k] = @ + z[n]], wr \cup {cells[n]},
                       w, cells, z, n + 1)

\* the upper end without ".min(limit)"
ClipHi_unclamped(c, r, limit) == AsUsize(Ceil(c + Mul(CLIP_FACTOR, r)))

\* lower and upper end of a clipped loop range
ClipLo(c, r, limit) == Min(AsUsize(Ceil(c - Mul(CLIP_FACTOR, r))), limit)
ClipHi(c, r, limit) == Min(AsUsize(Ceil(c + Mul(CLIP_FACTOR, r))), limit)

add_dot(g, w, h, x, y, r, amp) ==
    LET r_recip == Div(Unit, r)
        cells == LoopCells(ClipLo(x, r, w), ClipHi(x, r, w),
                           ClipLo(y, r, h), ClipHi(y, r, h))
        z == [n \in DOMAIN cells |->
                LET zy_amp == Mul(gauss_approx(Mul(r_recip, cells[n][2] * Unit - y)), amp)
                    zx == gauss_approx(Mul(r_recip, cells[n][1] * Unit - x))
                IN Mul(zx, zy_amp)]
    IN Splat(g, {}, w, cells, z, 1)

\* 2 / sqrt(PI)
USCALE == Div(2 * Unit, Sqrt(3142))

\* the closed-form loop of add_line (the part after the early return)
line_loop(g, w, h, x0, y0, x1, y1, r, amp) ==
    LET dx == x1 - x0
        dy == y1 - y0
        len2 == Mul(dx, dx) + Mul(dy, dy)
        len == Sqrt(len2)
        uvscale == Div(Unit, Mul(r, len))
        vx == Mul(-dy, uvscale)
        vy == Mul(dx, uvscale)
        ux == Mul(vy, USCALE)
        uy == Mul(-vx, USCALE)
        u0 == Mul(-x0, ux) - Mul(y0, uy)
        v0 == Mul(-x0, vx) - Mul(y0, vy)
        ustep == Mul(dx, ux) + Mul(dy, uy)
        a == Div(Mul(Div(r, USCALE), amp), len)
        cells == LoopCells(ClipLo(Min(x0, x1), r, w), ClipHi(Max(x0, x1), r, w),
                           ClipLo(Min(y0, y1), r, h), ClipHi(Max(y0, y1), r, h))
        z == [n \in DOMAIN cells |->
                LET u == ux * cells[n][1] + uy * cells[n][2] + u0
                    v == vx * cells[n][1] + vy * cells[n][2] + v0
                IN Mul(Mul(a, gauss_approx(v)), erf_approx(u) - erf_approx(u - ustep))]
    IN Splat(g, {}, w, cells, z, 1)

\* add_line whose fallback puts the dot on the first end point
add_line_dot_at_start(g, w, h, x0, y0, x1, y1, r, amp) ==
    LET dx == x1 - x0
        dy == y1 - y0
        len2 == Mul(dx, dx) + Mul(dy, dy)
    IN IF len2 < Unit
       THEN add_dot(g, w, h, x0, y0, r, amp)
       ELSE line_loop(g, w, h, x0, y0, x1, y1, r, amp)

add_line(g, w, h, x0, y0, x1, y1, r, amp) ==
    LET dx == x1 - x0
        dy == y1 - y0
        len2 == Mul(dx, dx) + Mul(dy, dy)
    IN IF len2 < Unit
       THEN add_dot(g, w, h, Mul(x0 + x1, Unit \div 2), Mul(y0 + y1, Unit \div 2), r, amp)
       ELSE line_loop(g, w, h, x0, y0, x1, y1, r, amp)

fade(g, factor) == [k \in DOMAIN g |-> Mul(g[k], factor)]

(***************************************************************************)
(* The trace driver.  xylast is <<>> for None and <<x, y>> for Some.       *)
(***************************************************************************)
\* f32::exp of -(n / t), n a sample count: the series of exp to third order
exp_neg(n, t) ==
    LET a == Div(n * Unit, t)
    IN Unit - a + Mul(a, a) \div 2 - Mul(Mul(a, a), a) \div 6

\* beam radius and amplitude of the trace
BEAM_R == Unit
BEAM_AMP == 2 * Unit

\* one iteration of "for sample in samples"; d is the part of self the loop
\* changes, with the log of the mutator calls made so far.  The trace record
\* of the sample holds its position, the segment drawn to it (<<>> if none),
\* whether horiz wrapped after it and the xylast it leaves behind.
SampleRecord(sample, x, y, seg, wrap, after) ==
    [sample |-> sample, x |-> x, y |-> y, line |-> seg, wrapped |-> wrap, after |-> after]

\* the loop body without "self.xylast = None" on a wrap
sample_step_no_break(d, w, h, gn, sw, sample) ==
    LET y0 == Mul(h * Unit, Unit \div 2)
        x == d.horiz * w
        y == y0 - Mul(Mul(y0, gn), sample)
        drawn == d.xylast # <<>>
        res == IF drawn
               THEN add_line(d.glow, w, h, d.xylast[1], d.xylast[2], x, y, BEAM_R, BEAM_AMP)
               ELSE [glow |-> d.glow, written |-> {}, panic |-> FALSE]
        seg == IF drawn THEN <<d.xylast[1], d.xylast[2], x, y>> ELSE <<>>
        h1 == d.horiz + sw
        wrap == h1 > Unit
    IN [glow |-> res.glow,
        horiz |-> IF wrap THEN h1 - Unit ELSE h1,
        xylast |-> <<x, y>>,
        calls |-> IF drawn THEN Append(d.calls, <<"add_line">> \o seg) ELSE d.calls,
        trace |-> Append(d.trace, SampleRecord(sample, x, y, seg, wrap, <<x, y>>)),
        panic |-> d.panic \/ res.panic]

sample_step(d, w, h, gn, sw, sample) ==
    LET y0 == Mul(h * Unit, Unit \div 2)
        yscale == Mul(y0, gn)
        x == d.horiz * w
        y == y0 - Mul(yscale, sample)
        drawn == d.xylast # <<>>
        res == IF drawn
               THEN add_line(d.glow, w, h, d.xylast[1], d.xylast[2], x, y, BEAM_R, BEAM_AMP)
               ELSE [glow |-> d.glow, written |-> {}, panic |-> FALSE]
        seg == IF drawn THEN <<d.xylast[1], d.xylast[2], x, y>> ELSE <<>>
        h1 == d.horiz + sw
        wrap == h1 > Unit
        after == IF wrap THEN <<>> ELSE <<x, y>>
    IN [glow |-> res.glow,
        horiz |-> IF wrap THEN h1 - Unit ELSE h1,
        xylast |-> after,
        calls |-> IF drawn THEN Append(d.calls, <<"add_line">> \o seg) ELSE d.calls,
        trace |-> Append(d.trace, SampleRecord(sample, x, y, seg, wrap, after)),
        panic |-> d.panic \/ res.panic]

RECURSIVE sample_loop(_, _, _, _, _, _, _)
sample_loop(d, w, h, gn, sw, samples, n) ==
    IF n > Len(samples) \/ d.panic THEN d
    ELSE sample_loop(sample_step(d, w, h, gn, sw, samples[n]), w, h, gn, sw, samples, n + 1)

\* the state the loop starts from
LoopStart(g, hz, xyl, log) ==
    [glow |-> g, horiz |-> hz, xylast |-> xyl, calls |-> log, trace |-> <<>>,
     panic |-> FALSE]

\* provide_samples with the fade after the samples instead of before them
provide_samples_fade_last(g, w, h, t, sw, hz, gn, xyl, samples) ==
    LET factor == exp_neg(Len(samples), t)
        d == sample_loop(LoopStart(g, hz, xyl, <<>>), w, h, gn, sw, samples, 1)
    IN [d EXCEPT !.glow = fade(@, factor), !.calls = Append(@, <<"fade", factor>>)]

\* provide_samples that forgets the last point of the previous call
provide_samples_restart(g, w, h, t, sw, hz, gn, xyl, samples) ==
    LET factor == exp_neg(Len(samples), t)
    IN sample_loop(LoopStart(fade(g, factor), hz, <<>>, << <<"fade", factor>> >>),
                   w, h, gn, sw, samples, 1)

provide_samples(g, w, h, t, sw, hz, gn, xyl, samples) ==
    LET factor == exp_neg(Len(samples), t)
    IN sample_loop(LoopStart(fade(g, factor), hz, xyl, << <<"fade", factor>> >>),
                   w, h, gn, sw, samples, 1)

(***************************************************************************)
(* Presentation: the tone map and the grid overlay.  An image is a         *)
(* function on 0 .. width*height*4-1.                                      *)
(***************************************************************************)
grid_sp == 60
tick_sp == 12
tick_len == 6

\* (scale * a.sqrt()) as u8: the cast saturates, and NaN (a < 0) casts to 0
sqrt_u8(scale, a) == IF a < 0 THEN 0 ELSE Min((scale * Sqrt(a)) \div Unit, 255)

tone_map(v) ==
    <<sqrt_u8(64, Min(v, Unit)),
      sqrt_u8(255, Min(v + 30, Unit)),
      sqrt_u8(224, Min(v + 100, Unit)),
      255>>

\* the pixel indices "i" of the loop of render_hline; a wrapped (negative)
\* start is above every end, so the range is empty
hline_cells(w, x0, x1, y) ==
    LET lo == y * w + x0
        hi == y * w + x1
    IN IF lo < 0 THEN {} ELSE lo .. (hi - 1)

\* the pixel indices "i" of the loop of render_vline
vline_cells(w, x, y0, y1) ==
    IF y0 < 0 THEN {} ELSE {j * w + x : j \in y0 .. (y1 - 1)}

seg_cells(w, s) ==
    IF s.dir = "h" THEN hline_cells(w, s.a, s.b, s.c) ELSE vline_cells(w, s.a, s.b, s.c)

\* shift_cells over all four bytes of a pixel, alpha included
shift_cells_rgba(im, cells) ==
    IF \E i \in cells : i * 4 \notin DOMAIN im
    THEN [image |-> im, panic |-> TRUE]
    ELSE [image |-> [k \in DOMAIN im |-> IF (k \div 4) \in cells THEN im[k] \div 2 ELSE im[k]],
          panic |-> FALSE]

\* im[i * 4 + c] >>= 1 for c in 0, 1, 2 and every i of the cells; an index
\* outside the image panics
shift_cells(im, cells) ==
    IF \E i \in cells : i * 4 \notin DOMAIN im
    THEN [image |-> im, panic |-> TRUE]
    ELSE [image |-> [k \in DOMAIN im |->
                        IF (k \div 4) \in cells /\ k % 4 < 3 THEN im[k] \div 2 ELSE im[k]],
          panic |-> FALSE]

render_hline(im, w, x0, x1, y) == shift_cells(im, hline_cells(w, x0, x1, y))
render_vline(im, w, x, y0, y1) == shift_cells(im, vline_cells(w, x, y0, y1))

\* a call of render_hline (a, b, c = x0, x1, y) or render_vline (x, y0, y1);
\* under is TRUE when an unsigned subtraction in its arguments went below 0
HSeg(kind, x0, x1, y, under) ==
    [kind |-> kind, dir |-> "h", a |-> x0, b |-> x1, c |-> y, under |-> under]
VSeg(kind, x, y0, y1, under) ==
    [kind |-> kind, dir |-> "v", a |-> x, b |-> y0, c |-> y1, under |-> under]

\* the loop "for i in 1..(half / sp + 1)", which also takes i * sp = half
LoopCount_inclusive(half, sp) == half \div sp

\* "for i in 1..((half + sp - 1) / sp)" with two calls per iteration
LoopCount(half, sp) == Max(((half + sp - 1) \div sp) - 1, 0)

\* the calls render_grid_lines makes, in order
grid_segs(w, h) ==
    LET x2 == w \div 2
        y2 == h \div 2
        gh == [n \in 1 .. 2 * LoopCount(y2, grid_sp) |->
                 LET i == (n + 1) \div 2
                 IN IF n % 2 = 1
                    THEN HSeg("grid", 0, w, y2 + i * grid_sp, FALSE)
                    ELSE HSeg("grid", 0, w, y2 - i * grid_sp, y2 < i * grid_sp)]
        gv == [n \in 1 .. 2 * LoopCount(x2, grid_sp) |->
                 LET i == (n + 1) \div 2
                 IN IF n % 2 = 1
                    THEN VSeg("grid", x2 + i * grid_sp, 0, h, FALSE)
                    ELSE VSeg("grid", x2 - i * grid_sp, 0, h, x2 < i * grid_sp)]
        th == [n \in 1 .. 2 * LoopCount(y2, tick_sp) |->
                 LET i == (n + 1) \div 2
                 IN IF n % 2 = 1
                    THEN HSeg("tick", x2 - tick_len, x2 + tick_len, y2 - i * tick_sp,
                              x2 < tick_len \/ y2 < i * tick_sp)
                    ELSE HSeg("tick", x2 - tick_len, x2 + tick_len, y2 + i * tick_sp,
                              x2 < tick_len)]
        tv == [n \in 1 .. 2 * LoopCount(x2, tick_sp) |->
                 LET i == (n + 1) \div 2
                 IN IF n % 2 = 1
                    THEN VSeg("tick", x2 + i * tick_sp, y2 - tick_len, y2 + tick_len,
                              y2 < tick_len)
                    ELSE VSeg("tick", x2 - i * tick_sp, y2 - tick_len, y2 + tick_len,
                              y2 < tick_len \/ x2 < i * tick_sp)]
    IN << HSeg("centre", 0, w, y2, FALSE), VSeg("centre", x2, 0, h, FALSE) >>
       \o gh \o gv \o th \o tv

\* render_grid_lines: the calls one after the other.  With overflow checks
\* (debug profile) an unsigned underflow panics; without them (release
\* profile) the value wraps
RECURSIVE render_grid_lines(_, _, _, _, _)
render_grid_lines(im, w, segs, n, checks) ==
    IF n > Len(segs) THEN [image |-> im, panic |-> FALSE, overlay |-> segs]
    ELSE IF checks /\ segs[n].under
         THEN [image |-> im, panic |-> TRUE, overlay |-> SubSeq(segs, 1, n - 1)]
         ELSE LET s == segs[n]
                  res == IF s.dir = "h" THEN render_hline(im, w, s.a, s.b, s.c)
                                        ELSE render_vline(im, w, s.a, s.b, s.c)
              IN IF res.panic
                 THEN [image |-> im, panic |-> TRUE, overlay |-> SubSeq(segs, 1, n)]
                 ELSE render_grid_lines(res.image, w, segs, n + 1, checks)

\* as_rgba that clamps the glow it tone-maps in place
as_rgba_clamping(g, w, h, checks) ==
    LET n == w * h
        rgba == [i \in 0 .. (n - 1) |-> tone_map(g[i])]
        im == [k \in 0 .. (n * 4 - 1) |-> rgba[k \div 4][(k % 4) + 1]]
        res == render_grid_lines(im, w, grid_segs(w, h), 1, checks)
    IN [glow |-> [i \in DOMAIN g |-> Min(g[i], Unit)], image |-> res.image,
        panic |-> res.panic, overlay |-> res.overlay]

\* as_rgba takes &self: the glow it leaves is the glow it found
as_rgba(g, w, h, checks) ==
    LET n == w * h
        rgba == [i \in 0 .. (n - 1) |-> tone_map(g[i])]
        im == [k \in 0 .. (n * 4 - 1) |-> rgba[k \div 4][(k % 4) + 1]]
        res == render_grid_lines(im, w, grid_segs(w, h), 1, checks)
    IN [glow |-> g, image |-> res.image, panic |-> res.panic, overlay |-> res.overlay]

(***************************************************************************)
(* State machine.  Besides the fields of Scope and the build profile       *)
(* (overflow_checks), the state records what the last call did: op (the    *)
(* call), prev (self and the last image before the call), calls (the       *)
(* mutator calls provide_samples made, in order), written (the cells a     *)
(* splat wrote), image and overlay (what as_rgba returned and the lines it *)
(* drew), trace (one record per sample consumed so far) and start (horiz   *)
(* and xylast of the initial state).                                       *)
(***************************************************************************)
Snapshot ==
    [glow |-> glow, tc |-> tc, sweep |-> sweep, horiz |-> horiz, gain |-> gain,
     xylast |-> xylast, image |-> image, op |-> op]

\* Scope::new(w, h), followed by k samples of value 0 and fade(0.0) when k > 0
InitScope(w, h, k, checks) ==
    /\ width = w
    /\ height = h
    /\ glow = [i \in 0 .. (w * h - 1) |-> 0]
    /\ tc = 1000 * Unit
    /\ sweep = Unit \div SweepRecip
    /\ horiz = k * (Unit \div SweepRecip)
    /\ gain = Unit
    /\ xylast = IF k = 0 THEN <<>>
                ELSE <<(k - 1) * (Unit \div SweepRecip) * w, Mul(h * Unit, Unit \div 2)>>
    /\ overflow_checks = checks
    /\ panicked = FALSE
    /\ op = [name |-> "new", args |-> <<w, h>>]
    /\ calls = <<>>
    /\ written = {}
    /\ image = <<>>
    /\ overlay = <<>>
    /\ trace = <<>>
    /\ start = <<horiz, xylast>>
    /\ prev = Snapshot
    /\ nops = 0

\* what every call has in common
CanCall(limit) == ~panicked /\ nops < limit

Call(name, args) ==
    /\ nops' = nops + 1
    /\ op' = [name |-> name, args |-> args]
    /\ prev' = Snapshot
    /\ UNCHANGED <<width, height, tc, sweep, gain, overflow_checks, start>>

FadeAct(factors, limit) ==
    /\ CanCall(limit)
    /\ \E f \in factors :
        /\ Call("fade", <<f>>)
        /\ glow' = fade(glow, f)
        /\ calls' = <<>>
        /\ written' = {}
        /\ UNCHANGED <<horiz, xylast, panicked, image, overlay, trace>>

AddDotAct(points, radii, amps, limit) ==
    /\ CanCall(limit)
    /\ \E p \in points, r \in radii, amp \in amps :
        \E res \in {add_dot(glow, width, height, p[1], p[2], r, amp)} :
           /\ Call("add_dot", <<p[1], p[2], r, amp>>)
           /\ glow' = res.glow
           /\ written' = res.written
           /\ panicked' = res.panic
           /\ calls' = <<>>
           /\ UNCHANGED <<horiz, xylast, image, overlay, trace>>

AddLineAct(points, radii, amps, limit) ==
    /\ CanCall(limit)
    /\ \E p \in points, q \in points, r \in radii, amp \in amps :
        \E res \in {add_line(glow, width, height, p[1], p[2], q[1], q[2], r, amp)} :
           /\ Call("add_line", <<p[1], p[2], q[1], q[2], r, amp>>)
           /\ glow' = res.glow
           /\ written' = res.written
           /\ panicked' = res.panic
           /\ calls' = <<>>
           /\ UNCHANGED <<horiz, xylast, image, overlay, trace>>

ProvideSamplesAct(batches, limit) ==
    /\ CanCall(limit)
    /\ \E samples \in batches :
        \E res \in {provide_samples(glow, width, height, tc, sweep, horiz, gain,
                                     xylast, samples)} :
           /\ Call("provide_samples", samples)
           /\ glow' = res.glow
           /\ horiz' = res.horiz
           /\ xylast' = res.xylast
           /\ calls' = res.calls
           /\ trace' = trace \o res.trace
           /\ panicked' = res.panic
           /\ written' = {}
           /\ UNCHANGED <<image, overlay>>

AsRgbaAct(limit) ==
    /\ CanCall(limit)
    /\ \E res \in {as_rgba(glow, width, height, overflow_checks)} :
       /\ Call("as_rgba", <<>>)
       /\ glow' = res.glow
       /\ image' = IF res.panic THEN <<>> ELSE res.image
       /\ overlay' = res.overlay
       /\ panicked' = res.panic
       /\ calls' = <<>>
       /\ written' = {}
       /\ UNCHANGED <<horiz, xylast, trace>>

(***************************************************************************)
(* Inputs.                                                                 *)
(***************************************************************************)
\* sequences over S of length at most n
RECURSIVE SeqsUpTo(_, _)
SeqsUpTo(S, n) ==
    IF n = 0 THEN {<<>>}
    ELSE LET shorter == SeqsUpTo(S, n - 1)
         IN shorter \cup {Append(q, x) : q \in shorter, x \in S}

Builds == BOOLEAN
Samples == {0, -Unit}
Factors == {0, Unit \div 2}
Radii == {(3 * Unit) \div 5, Unit}
Amps == {2 * Unit}
\* inside the buffer, on its corner, left of and above it, astride its right
\* edge, and far to the right of it
Points == {<<0, 0>>, <<Unit, 0>>, <<(3 * Unit) \div 5, (3 * Unit) \div 10>>,
           <<-2 * Unit, -Unit>>, <<(5 * Unit) \div 2, (3 * Unit) \div 2>>,
           <<9 * Unit, Unit \div 2>>}

(***************************************************************************)
(* Spec: every public call on a small scope, from Scope::new.              *)
(***************************************************************************)
Dims == {<<3, 2>>}
FewPoints == {<<(3 * Unit) \div 5, (3 * Unit) \div 10>>,
              <<(5 * Unit) \div 2, (3 * Unit) \div 2>>}
FewBatches == {<<>>, <<0>>, <<-Unit, 0>>}
DriverBatches == SeqsUpTo(Samples, MaxBatch)

Init == \E d \in Dims, c \in Builds : InitScope(d[1], d[2], 0, c)

Next ==
    \/ FadeAct(Factors, MaxOps)
    \/ AddDotAct(FewPoints, {Unit}, Amps, MaxOps)
    \/ AddLineAct(FewPoints, {Unit}, Amps, MaxOps)
    \/ ProvideSamplesAct(FewBatches, MaxOps)
    \/ AsRgbaAct(MaxOps)

Spec == Init /\ [][Next]_vars

(***************************************************************************)
(* SpecSplat: the two splats with coordinates in and around the buffer.    *)
(***************************************************************************)
SplatDims == {<<3, 2>>, <<2, 3>>}

InitSplat == \E d \in SplatDims : InitScope(d[1], d[2], 0, TRUE)

NextSplat ==
    \/ AddDotAct(Points, Radii, Amps, MaxSplats)
    \/ AddLineAct(Points, Radii, Amps, MaxSplats)

SpecSplat == InitSplat /\ [][NextSplat]_vars

(***************************************************************************)
(* SpecDriver: provide_samples around the end of a sweep.  The initial     *)
(* states are Scope::new and the states 998 and 999 samples later, each    *)
(* with the buffer cleared by fade(0.0).                                   *)
(***************************************************************************)
DriverDims == {<<3, 2>>}
StartSamples == {0, SweepRecip - 2, SweepRecip - 1}

InitDriver == \E d \in DriverDims, k \in StartSamples : InitScope(d[1], d[2], k, TRUE)

NextDriver == ProvideSamplesAct(DriverBatches, MaxCalls)

SpecDriver == InitDriver /\ [][NextDriver]_vars

(***************************************************************************)
(* SpecRender: as_rgba on scopes of several sizes, in both build profiles. *)
(***************************************************************************)
RenderDims == {<<3, 3>>, <<4, 26>>, <<11, 26>>, <<26, 4>>, <<24, 26>>, <<12, 120>>,
               <<12, 122>>}

InitRender == \E d \in RenderDims, c \in Builds : InitScope(d[1], d[2], 0, c)

NextRender ==
    \/ AddDotAct({<<0, 0>>, <<(5 * Unit) \div 2, (3 * Unit) \div 2>>}, {Unit}, Amps, MaxFrames)
    \/ AsRgbaAct(MaxFrames)

SpecRender == InitRender /\ [][NextRender]_vars

(***************************************************************************)
(* Properties of the trace driver (SpecDriver).                            *)
(***************************************************************************)
\* the samples consumed since the initial state, in one sequence
Fed == [n \in DOMAIN trace |-> trace[n].sample]

\* C1: after a sample that wraps horiz, xylast is None; the next sample, in
\* the same call or a later one, draws no line and leaves its own position in
\* xylast.  Every other sample but the first draws a line from its
\* predecessor's position to its own, one sweep step to the right, so there is
\* exactly one break per wrap.
NoLineAcrossWrap ==
    /\ \A n \in DOMAIN trace :
        LET s == trace[n] IN
        /\ s.wrapped => s.after = <<>>
        /\ ~s.wrapped => s.after = <<s.x, s.y>>
        /\ n > 1 =>
            /\ (s.line = <<>>) <=> trace[n - 1].wrapped
            /\ s.line # <<>> => s.line = <<trace[n - 1].x, trace[n - 1].y, s.x, s.y>>
        /\ n = 1 => s.line = (IF start[2] = <<>> THEN <<>> ELSE start[2] \o <<s.x, s.y>>)
        /\ s.line # <<>> => s.line[3] = s.line[1] + sweep * width /\ s.line[3] > s.line[1]
    /\ trace # <<>> => xylast = trace[Len(trace)].after

\* C1 witness: a wrap happened and the sample after it has been consumed
WrapThenSample ==
    \E n \in DOMAIN trace :
        /\ n > 1 /\ n < Len(trace)
        /\ trace[n].wrapped
        /\ trace[n].line # <<>>
        /\ trace[n + 1].line = <<>>
        /\ xylast = <<trace[n + 1].x, trace[n + 1].y>>

\* C2: horiz is a fraction in [0, 1), so the plotted x is in [0, width)
HorizBelowOne ==
    /\ 0 <= horiz
    /\ horiz < Unit
    /\ \A n \in DOMAIN trace : 0 <= trace[n].x /\ trace[n].x < width * Unit

\* the glow after the add_line calls of a log, applied in order to g
RECURSIVE ReplayLines(_, _, _)
ReplayLines(g, log, n) ==
    IF n > Len(log) THEN g
    ELSE ReplayLines(add_line(g, width, height, log[n][2], log[n][3], log[n][4],
                              log[n][5], BEAM_R, BEAM_AMP).glow, log, n + 1)

\* C5: a call of provide_samples fades once, by a factor that depends on the
\* number of samples and tc only, before its first add_line; the glow it
\* leaves is that of its lines added to the faded buffer
FadeOncePerBatch ==
    op.name = "provide_samples" =>
        /\ calls # <<>>
        /\ calls[1] = <<"fade", exp_neg(Len(op.args), tc)>>
        /\ \A n \in 2 .. Len(calls) : calls[n][1] = "add_line"
        /\ glow = ReplayLines(fade(prev.glow, exp_neg(Len(op.args), tc)), Tail(calls), 1)

\* C5 witness: a batch that drew two lines on a buffer that already glowed
BatchOnGlowingBuffer ==
    /\ op.name = "provide_samples"
    /\ Len(calls) >= 3
    /\ \E k \in DOMAIN glow : prev.glow[k] > 0 /\ fade(prev.glow, calls[1][2])[k] < prev.glow[k]

\* C10: the driver state and the segments drawn are those of one call of
\* provide_samples on all the samples consumed so far, however they were
\* split into batches; an empty batch changes neither horiz nor xylast and
\* draws nothing
StreamingContinuity ==
    /\ \A one \in {provide_samples([k \in DOMAIN glow |-> 0], width, height, tc, sweep,
                                     start[1], gain, start[2], Fed)} :
          /\ horiz = one.horiz
          /\ xylast = one.xylast
          /\ [n \in DOMAIN trace |-> trace[n].line] = [n \in DOMAIN one.trace |-> one.trace[n].line]
    /\ (op.name = "provide_samples" /\ op.args = <<>>) =>
          horiz = prev.horiz /\ xylast = prev.xylast /\ Len(calls) = 1

\* C10 witness: two non-empty batches with a line drawn across their boundary
LineAcrossBatches ==
    /\ op.name = "provide_samples"
    /\ prev.op.name = "provide_samples"
    /\ op.args # <<>>
    /\ Len(trace) > Len(op.args)
    /\ trace[Len(trace) - Len(op.args) + 1].line # <<>>

(***************************************************************************)
(* Properties of the splats (SpecSplat).                                   *)
(***************************************************************************)
\* the clip box of the last splat: the centre (add_dot) or the bounding box
\* of the segment (add_line), widened by CLIP_FACTOR * r
ClipBox ==
    LET a == op.args
    IN IF op.name = "add_dot"
       THEN [xlo |-> a[1] - Mul(CLIP_FACTOR, a[3]), xhi |-> a[1] + Mul(CLIP_FACTOR, a[3]),
             ylo |-> a[2] - Mul(CLIP_FACTOR, a[3]), yhi |-> a[2] + Mul(CLIP_FACTOR, a[3])]
       ELSE [xlo |-> Min(a[1], a[3]) - Mul(CLIP_FACTOR, a[5]),
             xhi |-> Max(a[1], a[3]) + Mul(CLIP_FACTOR, a[5]),
             ylo |-> Min(a[2], a[4]) - Mul(CLIP_FACTOR, a[5]),
             yhi |-> Max(a[2], a[4]) + Mul(CLIP_FACTOR, a[5])]

IsSplat == op.name \in {"add_dot", "add_line"}

\* C3: a splat does not fail; every cell it writes has its column in
\* [0, width), its row in [0, height) and lies in the clip box; every other
\* cell keeps its value (so a clip box outside the buffer changes nothing)
SplatClipped ==
    IsSplat =>
        /\ ~panicked
        /\ DOMAIN glow = DOMAIN prev.glow
        /\ \A c \in written :
            /\ 0 <= c[1] /\ c[1] < width
            /\ 0 <= c[2] /\ c[2] < height
            /\ c[2] * width + c[1] < width * height
            /\ ClipBox.xlo <= c[1] * Unit /\ c[1] * Unit <= ClipBox.xhi
            /\ ClipBox.ylo <= c[2] * Unit /\ c[2] * Unit <= ClipBox.yhi
        /\ \A k \in DOMAIN glow :
            (\A c \in written : c[2] * width + c[1] # k) => glow[k] = prev.glow[k]

\* C3 witness: a splat whose clip box runs over the right edge of the buffer
\* and which wrote some cells but not all
SplatAcrossEdge ==
    /\ IsSplat
    /\ ClipBox.xhi > width * Unit
    /\ written # {}
    /\ \E k \in DOMAIN glow : glow[k] # prev.glow[k]
    /\ \E k \in DOMAIN glow : \A c \in written : c[2] * width + c[1] # k

\* the segment of the last add_line is shorter than one pixel
SubPixel ==
    LET a == op.args
    IN (a[3] - a[1]) * (a[3] - a[1]) + (a[4] - a[2]) * (a[4] - a[2]) < Unit * Unit

\* C6: add_line on a segment shorter than one pixel leaves the buffer that
\* add_dot at its midpoint leaves
DegenerateLineIsDot ==
    (op.name = "add_line" /\ SubPixel) =>
        LET a == op.args
        IN glow = add_dot(prev.glow, width, height, Mul(a[1] + a[3], Unit \div 2),
                          Mul(a[2] + a[4], Unit \div 2), a[5], a[6]).glow

\* C6 witness: a sub-pixel segment with distinct ends that lit some cell
SubPixelLineDrawn ==
    /\ op.name = "add_line"
    /\ SubPixel
    /\ <<op.args[1], op.args[2]>> # <<op.args[3], op.args[4]>>
    /\ \E k \in DOMAIN glow : glow[k] > prev.glow[k]

(***************************************************************************)
(* Properties of as_rgba among the other calls (Spec).                     *)
(***************************************************************************)
\* C7: as_rgba leaves every field of the scope as it found it, and two calls
\* of as_rgba in a row return the same image
AsRgbaReadOnly ==
    op.name = "as_rgba" =>
        /\ glow = prev.glow
        /\ horiz = prev.horiz
        /\ xylast = prev.xylast
        /\ tc = prev.tc /\ sweep = prev.sweep /\ gain = prev.gain
        /\ prev.op.name = "as_rgba" => image = prev.image

\* C7 witness: as_rgba twice in a row on a scope that has consumed samples
\* and holds glow above 1.0
AsRgbaTwice ==
    /\ op.name = "as_rgba"
    /\ prev.op.name = "as_rgba"
    /\ ~panicked
    /\ xylast # <<>>
    /\ \E k \in DOMAIN glow : glow[k] > Unit

(***************************************************************************)
(* Properties of the image (SpecRender).                                   *)
(***************************************************************************)
\* C4: as_rgba does not fail, whatever the size of the scope, and returns
\* width * height * 4 bytes
AsRgbaInfallible ==
    op.name = "as_rgba" =>
        /\ ~panicked
        /\ DOMAIN image = 0 .. (width * height * 4 - 1)

\* as_rgba returned an image
Returned == op.name = "as_rgba" /\ ~panicked

\* the number of lines of the overlay that pass over each pixel
Hits ==
    LET cells == [n \in DOMAIN overlay |-> seg_cells(width, overlay[n])]
    IN [i \in 0 .. (width * height - 1) |->
            Cardinality({n \in DOMAIN overlay : i \in cells[n]})]

RECURSIVE Shr(_, _)
Shr(v, k) == IF k = 0 THEN v ELSE Shr(v \div 2, k - 1)

\* C8 as stated: a pixel under the overlay has R, G, B halved once, any other
\* pixel keeps its tone-mapped R, G, B, and alpha is 255
HalvedExactlyOnce ==
    Returned =>
        LET hits == Hits
        IN \A i \in 0 .. (width * height - 1) :
            /\ \A c \in 0 .. 2 :
                image[i * 4 + c] = Shr(tone_map(glow[i])[c + 1], IF hits[i] > 0 THEN 1 ELSE 0)
            /\ image[i * 4 + 3] = 255

\* C8 amended: R, G, B of a pixel are halved once for every line of the
\* overlay that passes over it
HalvedOncePerLine ==
    Returned =>
        LET hits == Hits
        IN \A i \in 0 .. (width * height - 1) :
            /\ \A c \in 0 .. 2 : image[i * 4 + c] = Shr(tone_map(glow[i])[c + 1], hits[i])
            /\ image[i * 4 + 3] = 255

\* C8 witness: an image with pixels under no line, under one line, and a
\* glowing pixel under two lines or more
CrossingOnGlow ==
    /\ Returned
    /\ LET hits == Hits
       IN /\ \E i \in DOMAIN hits : hits[i] >= 2 /\ glow[i] > 0
          /\ \E i \in DOMAIN hits : hits[i] = 1
          /\ \E i \in DOMAIN hits : hits[i] = 0

\* the rows of the full-width and the columns of the full-height grid lines
\* drawn by the last as_rgba
GridRows == {overlay[n].c : n \in {m \in DOMAIN overlay :
                                      overlay[m].kind = "grid" /\ overlay[m].dir = "h"}}
GridCols == {overlay[n].a : n \in {m \in DOMAIN overlay :
                                      overlay[m].kind = "grid" /\ overlay[m].dir = "v"}}

\* every grid line and the two centre lines span the whole buffer
GridLinesSpan ==
    /\ Len(overlay) >= 2
    /\ overlay[1] = HSeg("centre", 0, width, height \div 2, FALSE)
    /\ overlay[2] = VSeg("centre", width \div 2, 0, height, FALSE)
    /\ \A n \in DOMAIN overlay :
        overlay[n].kind = "grid" =>
            IF overlay[n].dir = "h" THEN overlay[n].a = 0 /\ overlay[n].b = width
                                    ELSE overlay[n].b = 0 /\ overlay[n].c = height

\* C9 as stated: a grid line at every row height/2 +- k*60 and every column
\* width/2 +- k*60 (k >= 1) that lies inside the buffer, and nowhere else
GridLinesAsManyAsFit ==
    op.name = "as_rgba" =>
        /\ GridLinesSpan
        /\ GridRows = {r \in 0 .. (height - 1) :
                         \E k \in 1 .. height : Abs(r - height \div 2) = k * grid_sp}
        /\ GridCols = {c \in 0 .. (width - 1) :
                         \E k \in 1 .. width : Abs(c - width \div 2) = k * grid_sp}

\* C9 amended: the grid lines are those at distance k*60 (k >= 1) strictly
\* below height/2 (rows) and width/2 (columns) from the centre
GridLinesBelowHalf ==
    op.name = "as_rgba" =>
        /\ GridLinesSpan
        /\ GridRows = {r \in 0 .. (height - 1) :
                         \E k \in 1 .. height : /\ Abs(r - height \div 2) = k * grid_sp
                                                /\ k * grid_sp < height \div 2}
        /\ GridCols = {c \in 0 .. (width - 1) :
                         \E k \in 1 .. width : /\ Abs(c - width \div 2) = k * grid_sp
                                               /\ k * grid_sp < width \div 2}

\* C9 witness: an image with grid lines off the centre
GridLinesDrawn ==
    /\ Returned
    /\ GridRows # {}
    /\ \A r \in GridRows : \A x \in 0 .. (width - 1) : Hits[r * width + x] >= 1

====
